---- MODULE Spec2Model ----
(***************************************************************************)
(* Model of make_admin.py: main() logs in against the remote service,      *)
(* takes the bearer token out of the response and, when it has one, posts  *)
(* to the make-me-admin endpoint.  The remote service and the HTTP client  *)
(* are the environment: every blocking requests.post returns one of the    *)
(* outcomes in LoginResponses / AdminResponses.                            *)
(*                                                                         *)
(* Text is a sequence of pieces (characters or literal fragments), so that *)
(* f-string interpolation is concatenation and "the output contains s" is  *)
(* a real sub-sequence test.  The emoji that open the printed lines are    *)
(* written as the ASCII marks [lock], [ok], [x], [shield], [note], [party].*)
(***************************************************************************)
EXTENDS Integers, Sequences, FiniteSets, TLC

VARIABLES
    pc,         \* position of main(): start, login_post, main_76, admin_post, main_83, done, crashed
    token,      \* main's local `token` (line 75)
    success,    \* main's local `success` (line 81)
    out,        \* stdout: the sequence of printed lines
    sent,       \* the HTTP requests handed to requests.post, in order
    loginResp,  \* what the login POST came back with
    adminResp   \* what the admin POST came back with

vars == <<pc, token, success, out, sent, loginResp, adminResp>>

(***************************************************************************)
(* Bounds of the model.                                                    *)
(***************************************************************************)
MaxTokenLen == 1    \* token strings have at most this many characters
MaxTextLen == 1     \* username / error / message strings likewise

TokenChars == {"a", "b"}
TextChars == {"x"}

StringsOver(chars, n) == UNION {[1..k -> chars] : k \in 0..n}

(***************************************************************************)
(* Python values.  Absent marks a key that a dict does not carry.          *)
(***************************************************************************)
Absent == [tag |-> "absent", val |-> <<>>]
PyNone == [tag |-> "None", val |-> <<>>]
PyTrue == [tag |-> "bool", val |-> <<"True">>]
PyFalse == [tag |-> "bool", val |-> <<"False">>]
PyStr(s) == [tag |-> "str", val |-> s]

TokenValues == {PyStr(s) : s \in StringsOver(TokenChars, MaxTokenLen)}
TextValues == {PyStr(s) : s \in StringsOver(TextChars, MaxTextLen)}

\* Variant: a test against None in place of truthiness.
TruthyNotNone(v) == v.tag # "None"

\* Truthiness as in `if data.get("success")` and `if not token`.
Truthy(v) ==
    CASE v.tag = "None" -> FALSE
      [] v.tag = "bool" -> v = PyTrue
      [] v.tag = "str" -> Len(v.val) > 0
      [] OTHER -> TRUE

\* str() of a value, as an f-string replacement field applies it.
Format(v) ==
    CASE v.tag = "None" -> <<"None">>
      [] v.tag = "bool" -> v.val
      [] OTHER -> v.val

\* Variant: `d.get(key) or default`, which also replaces an empty string.
GetOrDefaultIfFalsy(d, key, default) ==
    IF d[key] = Absent \/ d[key] = PyStr(<<>>) THEN default ELSE d[key]

\* dict.get(key, default) and dict.get(key).
GetOr(d, key, default) == IF d[key] = Absent THEN default ELSE d[key]
Get(d, key) == IF d[key] = Absent THEN PyNone ELSE d[key]

(***************************************************************************)
(* Configuration (lines 9-11) and the two requests.                        *)
(***************************************************************************)
BASE_URL == <<"https://web-production-5dffa.up.railway.app">>
EMAIL == <<"omarAbdelghany56@gmail.com">>
PASSWORD == <<"omarAbdelghany56@gmail.com">>

login_url == BASE_URL \o <<"/api/auth/login">>
admin_url == BASE_URL \o <<"/api/admin/make-me-admin">>

NoHeader == <<>>
NoJson == [email |-> <<>>, password |-> <<>>]

\* requests.post(login_url, json=payload)
LoginRequest == [url |-> login_url, authorization |-> NoHeader,
                 hasJson |-> TRUE, json |-> [email |-> EMAIL, password |-> PASSWORD]]

\* headers["Authorization"] = f"Bearer {token}"
Bearer(t) == <<"Bearer ">> \o Format(t)

\* requests.post(admin_url, headers=headers): no body
AdminRequest(t) == [url |-> admin_url, authorization |-> Bearer(t),
                    hasJson |-> FALSE, json |-> NoJson]

(***************************************************************************)
(* What a blocking requests.post can come back with.  exc is the exception *)
(* the transport raised ("none" when a response arrived), status the HTTP  *)
(* status of the response, jsonValid whether its body parses, data the     *)
(* parsed JSON object.                                                     *)
(***************************************************************************)
\* Parsed bodies are JSON objects; a field is absent or has the type the
\* service's response shapes give it (success a boolean, the others strings,
\* user an object).
UserDicts == [username : {Absent} \cup TextValues]
EmptyDict == [username |-> Absent]

LoginBodies == [success : {Absent, PyTrue, PyFalse},
                token : {Absent} \cup TokenValues,
                user : {Absent} \cup UserDicts,
                error : {Absent} \cup TextValues]
AdminBodies == [success : {Absent, PyTrue, PyFalse},
                message : {Absent} \cup TextValues,
                error : {Absent} \cup TextValues]

NoLoginBody == [success |-> Absent, token |-> Absent, user |-> Absent, error |-> Absent]
NoAdminBody == [success |-> Absent, message |-> Absent, error |-> Absent]

TransportExceptions == {"ConnectionError", "Timeout"}
\* Statuses the server can answer with: 2xx, a 3xx that requests does not
\* follow (300 Multiple Choices), 4xx and 5xx.  The body of a 4xx/5xx is
\* never read (line 25 raises first), so it is left out.
SuccessStatuses == {200, 201}
UnfollowedStatuses == {300}
ErrorStatuses == {401, 500}

Responses(bodies, noBody) ==
    {[exc |-> e, status |-> 0, jsonValid |-> FALSE, data |-> noBody] : e \in TransportExceptions}
    \cup {[exc |-> "none", status |-> s, jsonValid |-> FALSE, data |-> noBody] :
              s \in ErrorStatuses \cup SuccessStatuses \cup UnfollowedStatuses}
    \cup {[exc |-> "none", status |-> s, jsonValid |-> TRUE, data |-> d] :
              s \in SuccessStatuses \cup UnfollowedStatuses, d \in bodies}

LoginResponses == Responses(LoginBodies, NoLoginBody)
AdminResponses == Responses(AdminBodies, NoAdminBody)

\* Before the call has returned.
NoLoginResponse == [exc |-> "pending", status |-> 0, jsonValid |-> FALSE, data |-> NoLoginBody]
NoAdminResponse == [exc |-> "pending", status |-> 0, jsonValid |-> FALSE, data |-> NoAdminBody]

\* response.raise_for_status(): HTTPError for 4xx and 5xx
RaisesForStatus(status) == 400 <= status /\ status < 600

\* The exception lines 24-26 (51-53) raise for a response, "none" if none.
Raised(resp) ==
    IF resp.exc # "none" THEN resp.exc
    ELSE IF RaisesForStatus(resp.status) THEN "HTTPError"
    ELSE IF ~resp.jsonValid THEN "JSONDecodeError"
    ELSE "none"

\* `except requests.exceptions.RequestException`.  Whether the error of
\* response.json() is a RequestException depends on the installed requests
\* (it is one from 2.27 on, a plain ValueError before): jsonErrIsReqExc.
IsRequestException(e, jsonErrIsReqExc) ==
    \/ e \in {"ConnectionError", "Timeout", "HTTPError"}
    \/ e = "JSONDecodeError" /\ jsonErrIsReqExc

(***************************************************************************)
(* Printed lines.                                                          *)
(***************************************************************************)
BannerWidth == 60
Rule == [i \in 1..BannerWidth |-> "="]

TitleLine == <<"WhatsApp Analytics - Make User Admin">>
LoggingInLine == <<"[lock] Logging in...">>
LoginSuccessPrefix == <<"[ok] Login successful! Welcome ">>
LoginFailedPrefix == <<"[x] Login failed: ">>
LoginRequestFailedPrefix == <<"[x] Login request failed: ">>
MakingAdminLine == <<"\n", "[shield] Making user admin...">>
AdminSuccessPrefix == <<"[ok] ">>
NextStepsLines == <<
    <<"\n", "[note] Next steps:">>,
    <<"1. Logout from the web app">>,
    <<"2. Login again at: https://web-production-5dffa.up.railway.app/login">>,
    <<"3. Access dashboard at: https://web-production-5dffa.up.railway.app/dashboard">> >>
AdminFailedPrefix == <<"[x] Failed to make admin: ">>
AdminRequestFailedPrefix == <<"[x] Make admin request failed: ">>
LoginFailureBanner == <<"\n", "[x] Failed to login. Exiting.">>
FinalSuccessLine == <<"[party] All done! You are now an admin.">>
FinalSuccessBanner == << <<"\n">> \o Rule, FinalSuccessLine, Rule >>
FinalFailureLine == <<"\n", "[x] Failed to complete the process.">>

DefaultUser == PyStr(<<"User">>)
UnknownError == PyStr(<<"Unknown error">>)
DefaultMessage == PyStr(<<"Success!">>)

(***************************************************************************)
(* login(), from the return of requests.post on (lines 24-38): whether an  *)
(* exception leaves the function, the value returned and the lines         *)
(* printed.                                                                *)
(***************************************************************************)
Outcome(raised, ret, lines) == [raised |-> raised, ret |-> ret, lines |-> lines]

\* Variant: the token is read before the success test and returned on
\* both branches.
LoginBodyKeepsToken(data) ==
    LET tok == Get(data, "token") IN
    IF Truthy(Get(data, "success"))
    THEN LET user == GetOr(data, "user", EmptyDict)
         IN Outcome(FALSE, tok,
                    << LoginSuccessPrefix \o Format(GetOr(user, "username", DefaultUser)) >>)
    ELSE Outcome(FALSE, tok,
                 << LoginFailedPrefix \o Format(GetOr(data, "error", UnknownError)) >>)

LoginBody(data) ==
    IF Truthy(Get(data, "success"))
    THEN LET tok == Get(data, "token")
             user == GetOr(data, "user", EmptyDict)
         IN Outcome(FALSE, tok,
                    << LoginSuccessPrefix \o Format(GetOr(user, "username", DefaultUser)) >>)
    ELSE Outcome(FALSE, PyNone,
                 << LoginFailedPrefix \o Format(GetOr(data, "error", UnknownError)) >>)

\* Variant: the except block logs and re-raises.
LoginResultReraises(resp, jsonErrIsReqExc) ==
    LET e == Raised(resp) IN
    IF e = "none" THEN LoginBody(resp.data)
    ELSE IF IsRequestException(e, jsonErrIsReqExc)
    THEN Outcome(TRUE, PyNone, << LoginRequestFailedPrefix \o <<e>> >>)
    ELSE Outcome(TRUE, PyNone, <<>>)

LoginResult(resp, jsonErrIsReqExc) ==
    LET e == Raised(resp) IN
    IF e = "none" THEN LoginBody(resp.data)
    ELSE IF IsRequestException(e, jsonErrIsReqExc)
    THEN Outcome(FALSE, PyNone, << LoginRequestFailedPrefix \o <<e>> >>)
    ELSE Outcome(TRUE, PyNone, <<>>)

(***************************************************************************)
(* make_admin(token), from the return of requests.post on (lines 51-67).   *)
(***************************************************************************)
MakeAdminBody(data) ==
    IF Truthy(Get(data, "success"))
    THEN Outcome(FALSE, PyTrue,
                 << AdminSuccessPrefix \o Format(GetOr(data, "message", DefaultMessage)) >>
                     \o NextStepsLines)
    ELSE Outcome(FALSE, PyFalse,
                 << AdminFailedPrefix \o Format(GetOr(data, "error", UnknownError)) >>)

MakeAdminResult(resp, jsonErrIsReqExc) ==
    LET e == Raised(resp) IN
    IF e = "none" THEN MakeAdminBody(resp.data)
    ELSE IF IsRequestException(e, jsonErrIsReqExc)
    THEN Outcome(FALSE, PyFalse, << AdminRequestFailedPrefix \o <<e>> >>)
    ELSE Outcome(TRUE, PyFalse, <<>>)

(***************************************************************************)
(* The run of main().                                                      *)
(***************************************************************************)
Init ==
    /\ pc = "start"
    /\ token = PyNone
    /\ success = PyNone
    /\ out = <<>>
    /\ sent = <<>>
    /\ loginResp = NoLoginResponse
    /\ adminResp = NoAdminResponse

\* main() lines 70-75 and login() lines 15-24, up to the blocking POST.
Main_CallLogin ==
    /\ pc = "start"
    /\ out' = out \o <<Rule, TitleLine, Rule, LoggingInLine>>
    /\ sent' = Append(sent, LoginRequest)
    /\ pc' = "login_post"
    /\ UNCHANGED <<token, success, loginResp, adminResp>>

\* The login POST returns; login() runs to its end (lines 24-38) and main
\* binds `token` (line 75), unless an exception leaves login() and main().
Login_Return ==
    /\ pc = "login_post"
    /\ \E resp \in LoginResponses, jsonErrIsReqExc \in BOOLEAN :
          LET r == LoginResult(resp, jsonErrIsReqExc) IN
          /\ loginResp' = resp
          /\ out' = out \o r.lines
          /\ IF r.raised
             THEN pc' = "crashed" /\ token' = token
             ELSE pc' = "main_76" /\ token' = r.ret
    /\ UNCHANGED <<success, sent, adminResp>>

\* Variant: a failed login is tried once more before giving up.
Main_LoginFailedRetries ==
    /\ pc = "main_76"
    /\ ~Truthy(token)
    /\ IF Len(sent) < 2
       THEN /\ out' = Append(out, LoggingInLine)
            /\ sent' = Append(sent, LoginRequest)
            /\ pc' = "login_post"
       ELSE /\ out' = Append(out, LoginFailureBanner)
            /\ sent' = sent
            /\ pc' = "done"
    /\ UNCHANGED <<token, success, loginResp, adminResp>>

\* main() lines 76-78: `if not token`.
Main_LoginFailed ==
    /\ pc = "main_76"
    /\ ~Truthy(token)
    /\ out' = Append(out, LoginFailureBanner)
    /\ pc' = "done"
    /\ UNCHANGED <<token, success, sent, loginResp, adminResp>>

\* Variant: the `if not token` test does not return.
Main_CallMakeAdminUnguarded ==
    /\ pc = "main_76"
    /\ out' = Append(out, MakingAdminLine)
    /\ sent' = Append(sent, AdminRequest(token))
    /\ pc' = "admin_post"
    /\ UNCHANGED <<token, success, loginResp, adminResp>>

\* main() line 81 and make_admin() lines 42-51, up to the blocking POST.
Main_CallMakeAdmin ==
    /\ pc = "main_76"
    /\ Truthy(token)
    /\ out' = Append(out, MakingAdminLine)
    /\ sent' = Append(sent, AdminRequest(token))
    /\ pc' = "admin_post"
    /\ UNCHANGED <<token, success, loginResp, adminResp>>

\* The admin POST returns; make_admin() runs to its end (lines 51-67) and
\* main binds `success` (line 81).
MakeAdmin_Return ==
    /\ pc = "admin_post"
    /\ \E resp \in AdminResponses, jsonErrIsReqExc \in BOOLEAN :
          LET r == MakeAdminResult(resp, jsonErrIsReqExc) IN
          /\ adminResp' = resp
          /\ out' = out \o r.lines
          /\ IF r.raised
             THEN pc' = "crashed" /\ success' = success
             ELSE pc' = "main_83" /\ success' = r.ret
    /\ UNCHANGED <<token, sent, loginResp>>

\* Variant: the success banner is printed outside the `if success`.
Main_FinishBannerUnconditional ==
    /\ pc = "main_83"
    /\ out' = out \o (IF Truthy(success) THEN <<>> ELSE <<FinalFailureLine>>) \o FinalSuccessBanner
    /\ pc' = "done"
    /\ UNCHANGED <<token, success, sent, loginResp, adminResp>>

\* main() lines 83-88.
Main_Finish ==
    /\ pc = "main_83"
    /\ out' = out \o (IF Truthy(success) THEN FinalSuccessBanner ELSE <<FinalFailureLine>>)
    /\ pc' = "done"
    /\ UNCHANGED <<token, success, sent, loginResp, adminResp>>

Next ==
    \/ Main_CallLogin
    \/ Login_Return
    \/ Main_LoginFailed
    \/ Main_CallMakeAdmin
    \/ MakeAdmin_Return
    \/ Main_Finish

Spec == Init /\ [][Next]_vars

\* Each blocking call returns and the interpreter keeps running main().
FairSpec == Spec /\ WF_vars(Next)

(***************************************************************************)
(* Vocabulary of the properties.                                           *)
(***************************************************************************)
Contains(line, s) ==
    \E i \in 1..(Len(line) - Len(s) + 1) : SubSeq(line, i, i + Len(s) - 1) = s
StartsWith(line, prefix) ==
    Len(line) >= Len(prefix) /\ SubSeq(line, 1, Len(prefix)) = prefix
Printed(line) == \E i \in DOMAIN out : out[i] = line
PrintedWith(prefix, s) ==
    \E i \in DOMAIN out : StartsWith(out[i], prefix) /\ Contains(out[i], s)
PrintedPrefix(prefix) == \E i \in DOMAIN out : StartsWith(out[i], prefix)
SentTo(url) == {i \in DOMAIN sent : sent[i].url = url}

NoToken(v) == v = PyNone \/ v = PyStr(<<>>)
\* the call came back and no exception left the function
LoginReturned == loginResp.exc # "pending" /\ (pc = "crashed" => SentTo(admin_url) # {})
AdminReturned == adminResp.exc # "pending" /\ pc # "crashed"

Is2xx(status) == 200 <= status /\ status <= 299
\* a response (of any status) whose body is a JSON object with success == true
SuccessTrue(resp) == resp.exc = "none" /\ resp.jsonValid /\ resp.data.success = PyTrue
\* a 2xx response whose body parsed
ParsedBody(resp) == resp.exc = "none" /\ Is2xx(resp.status) /\ resp.jsonValid
\* connection error, timeout or non-2xx status
TransportFailure(resp) ==
    resp.exc \in {"ConnectionError", "Timeout"} \/ (resp.exc = "none" /\ ~Is2xx(resp.status))
TransportText(resp) == IF resp.exc = "none" THEN <<"HTTPError">> ELSE <<resp.exc>>
\* a response that passed raise_for_status and whose body is not JSON:
\* outside the expected paths
UnexpectedResponse(resp) ==
    resp.exc = "none" /\ resp.status \notin ErrorStatuses /\ ~resp.jsonValid

TerminalLines == {LoginFailureBanner, FinalSuccessLine, FinalFailureLine}
TerminalPrinted == {i \in DOMAIN out : out[i] \in TerminalLines}

(***************************************************************************)
(* C1.  When login() yields no token (None or "", whatever the cause),     *)
(* main() goes nowhere but to its end, the login failure banner is the     *)
(* last thing it prints, and no request is ever sent to                    *)
(* /api/admin/make-me-admin.                                               *)
(***************************************************************************)
LoginYieldedNoToken == LoginReturned /\ NoToken(token)

C1_NoTokenStopsBeforeAdmin ==
    LoginYieldedNoToken =>
        /\ pc \in {"main_76", "done"}
        /\ SentTo(admin_url) = {}
        /\ adminResp = NoAdminResponse
        /\ pc = "main_76" => (ENABLED Main_LoginFailed) /\ ~(ENABLED Main_CallMakeAdmin)
        /\ pc = "done" => out[Len(out)] = LoginFailureBanner

C1_Witness ==
    /\ pc = "done"
    /\ ParsedBody(loginResp) /\ loginResp.data.success = PyTrue
    /\ loginResp.data.token = PyStr(<<>>)
    /\ Printed(LoginFailureBanner)
    /\ Len(sent) = 1

(***************************************************************************)
(* C2.  An admin request exists only after the login request was sent and  *)
(* login() returned a non-empty token, and it carries that token: while    *)
(* the login call is pending, or once it returned None or "", nothing has  *)
(* been sent to the admin endpoint.                                        *)
(***************************************************************************)
C2_AdminOnlyAfterToken ==
    /\ (pc \in {"start", "login_post"} \/ NoToken(token)) => SentTo(admin_url) = {}
    /\ \A i \in SentTo(admin_url) :
          /\ \E j \in 1..(i - 1) : sent[j].url = login_url
          /\ loginResp.exc # "pending"
          /\ token.tag = "str" /\ Len(token.val) > 0
          /\ sent[i].authorization = <<"Bearer ">> \o token.val
          /\ ~sent[i].hasJson

C2_Witness ==
    /\ pc = "admin_post"
    /\ token = PyStr(<<"b">>)
    /\ sent[2].url = admin_url
    /\ sent[2].authorization = <<"Bearer ", "b">>

(***************************************************************************)
(* C3.  For a 2xx login response whose body has success == true and a      *)
(* token field T, login() returns T itself and prints the greeting with    *)
(* user.username when the user record has one, with "User" otherwise.      *)
(***************************************************************************)
GreetingName(data) ==
    IF data.user # Absent /\ data.user.username # Absent
    THEN data.user.username.val
    ELSE <<"User">>

C3_LoginSuccessReturnsToken ==
    (/\ loginResp.exc # "pending"
     /\ ParsedBody(loginResp)
     /\ loginResp.data.success = PyTrue
     /\ loginResp.data.token # Absent) =>
        /\ LoginReturned
        /\ token = loginResp.data.token
        /\ pc = "main_76" => out[Len(out)] = LoginSuccessPrefix \o GreetingName(loginResp.data)
        /\ Printed(LoginSuccessPrefix \o GreetingName(loginResp.data))
        /\ PrintedWith(LoginSuccessPrefix, GreetingName(loginResp.data))
        /\ ~PrintedPrefix(LoginFailedPrefix)
        /\ ~PrintedPrefix(LoginRequestFailedPrefix)

C3_Witness ==
    /\ pc = "main_76"
    /\ loginResp.data.success = PyTrue
    /\ loginResp.data.token = PyStr(<<"a">>)
    /\ loginResp.data.user = [username |-> PyStr(<<"x">>)]
    /\ token = PyStr(<<"a">>)
    /\ out[Len(out)] = <<"[ok] Login successful! Welcome ", "x">>

(***************************************************************************)
(* C4.  For a 2xx login response whose body has success false or absent,   *)
(* login() returns None whatever token the body carries, and prints        *)
(* "Login failed: " with the body's error text, or with "Unknown error"    *)
(* when the body has no error field.                                       *)
(***************************************************************************)
ErrorText(data) == IF data.error # Absent THEN data.error.val ELSE <<"Unknown error">>

C4_LoginRefusedReturnsNone ==
    (/\ loginResp.exc # "pending"
     /\ ParsedBody(loginResp)
     /\ loginResp.data.success # PyTrue) =>
        /\ LoginReturned
        /\ token = PyNone
        /\ Printed(LoginFailedPrefix \o ErrorText(loginResp.data))
        /\ PrintedWith(LoginFailedPrefix, ErrorText(loginResp.data))
        /\ ~PrintedPrefix(LoginSuccessPrefix)

C4_Witness ==
    /\ pc = "main_76"
    /\ loginResp.data.success = PyFalse
    /\ loginResp.data.token = PyStr(<<"a">>)
    /\ loginResp.data.error = Absent
    /\ token = PyNone
    /\ out[Len(out)] = <<"[x] Login failed: ", "Unknown error">>

(***************************************************************************)
(* C5.  A connection error, a timeout or a non-2xx status is caught in the *)
(* function that made the call: login() returns None, make_admin() returns *)
(* False, the function prints its "request failed" line with the           *)
(* exception, and main() keeps running (no exception reaches it).          *)
(***************************************************************************)
C5_TransportFailureCaught ==
    /\ (TransportFailure(loginResp) /\ ~UnexpectedResponse(loginResp)) =>
          /\ pc \in {"main_76", "done"}
          /\ token = PyNone
          /\ PrintedPrefix(LoginRequestFailedPrefix) \/ PrintedPrefix(LoginFailedPrefix)
    /\ (TransportFailure(adminResp) /\ ~UnexpectedResponse(adminResp)) =>
          /\ pc \in {"main_83", "done"}
          /\ success = PyFalse
          /\ PrintedPrefix(AdminRequestFailedPrefix) \/ PrintedPrefix(AdminFailedPrefix)

(***************************************************************************)
(* C6.  make_admin() returns True exactly when the admin POST got a 2xx    *)
(* response whose body has success == true.  Returning True, it has        *)
(* printed the body's message ("Success!" without one) followed by the     *)
(* follow-up lines; for a body with success false or absent it returns     *)
(* False, prints "Failed to make admin: " with the body's error ("Unknown  *)
(* error" without one) and none of the follow-up lines.                    *)
(***************************************************************************)
MessageText(data) == IF data.message # Absent THEN data.message.val ELSE <<"Success!">>
FollowUpPrinted == \E k \in DOMAIN NextStepsLines : Printed(NextStepsLines[k])

C6_MakeAdminResult ==
    AdminReturned =>
        /\ success \in {PyTrue, PyFalse}
        /\ success = PyTrue <=> (ParsedBody(adminResp) /\ adminResp.data.success = PyTrue)
        /\ success = PyTrue =>
              \E i \in DOMAIN out :
                  /\ out[i] = AdminSuccessPrefix \o MessageText(adminResp.data)
                  /\ Contains(out[i], MessageText(adminResp.data))
                  /\ SubSeq(out, i + 1, i + Len(NextStepsLines)) = NextStepsLines
        /\ success = PyFalse => ~FollowUpPrinted
        /\ (ParsedBody(adminResp) /\ adminResp.data.success # PyTrue) =>
              /\ success = PyFalse
              /\ PrintedWith(AdminFailedPrefix, ErrorText(adminResp.data))
              /\ Printed(AdminFailedPrefix \o ErrorText(adminResp.data))

(***************************************************************************)
(* C7.  A run that returned from make_admin() ends with the final success  *)
(* banner when make_admin() returned True and with the final failure line  *)
(* otherwise.  A finished run has printed exactly one of the three         *)
(* terminal messages, an unfinished one none, and the success banner       *)
(* appears only when both responses had success == true.                   *)
(***************************************************************************)
C7_OneTerminalMessage ==
    /\ Cardinality(TerminalPrinted) = (IF pc = "done" THEN 1 ELSE 0)
    /\ (pc = "done" /\ SentTo(admin_url) # {}) =>
          /\ Printed(FinalSuccessLine) <=> success = PyTrue
          /\ success # PyTrue => out[Len(out)] = FinalFailureLine
          /\ success = PyTrue =>
                SubSeq(out, Len(out) - 2, Len(out)) = << <<"\n">> \o Rule, FinalSuccessLine, Rule >>
    /\ (pc = "done" /\ SentTo(admin_url) = {}) => Printed(LoginFailureBanner)
    /\ Printed(FinalSuccessLine) =>
          /\ SuccessTrue(loginResp)
          /\ SuccessTrue(adminResp)

C7_Witness ==
    /\ pc = "done"
    /\ Printed(FinalSuccessLine)
    /\ ~Printed(FinalFailureLine)
    /\ ~Printed(LoginFailureBanner)
    /\ success = PyTrue

(***************************************************************************)
(* C8.  When each blocking call returns, with a transport failure or with  *)
(* a parsed body (success true, false or absent) at either endpoint, the   *)
(* run of main() reaches its normal end: no exception leaves main().       *)
(* Checked under FairSpec.                                                 *)
(***************************************************************************)
OffExpectedPaths == UnexpectedResponse(loginResp) \/ UnexpectedResponse(adminResp)

C8_TerminatesNormally == <>(pc = "done" \/ OffExpectedPaths)

C8_Witness ==
    /\ pc = "done"
    /\ adminResp.exc = "Timeout"
    /\ success = PyFalse
    /\ Printed(FinalFailureLine)

(***************************************************************************)
(* C9.  No retries: a run sends at most one login request and at most one  *)
(* admin request, whatever the calls came back with.                       *)
(***************************************************************************)
C9_NoRetries ==
    /\ Cardinality(SentTo(login_url)) <= 1
    /\ Cardinality(SentTo(admin_url)) <= 1
    /\ Len(sent) <= 2

C9_Witness ==
    /\ pc = "done"
    /\ Cardinality(SentTo(login_url)) = 1
    /\ Cardinality(SentTo(admin_url)) = 1
    /\ ParsedBody(adminResp) /\ adminResp.data.success = PyFalse
    /\ success = PyFalse

(***************************************************************************)
(* C10.  Whenever login() printed the "Login successful" greeting, main()  *)
(* sends the admin request with "Authorization: Bearer <T>", T the token   *)
(* field of the login response, and the greeting and the "Failed to        *)
(* login. Exiting." banner never both appear in one run, also when the     *)
(* body has success == true and a missing or empty token.                  *)
(***************************************************************************)
C10_GreetingImpliesAdminRequest ==
    PrintedPrefix(LoginSuccessPrefix) =>
        /\ ~Printed(LoginFailureBanner)
        /\ pc \in {"done", "crashed"} =>
              \E i \in SentTo(admin_url) :
                  sent[i].authorization = <<"Bearer ">> \o loginResp.data.token.val

====
